---- MODULE Spec2Model ----
(***************************************************************************)
(* Model of theia::WriteBundlerFiles (src/theia/io/write_bundler_files.cc): *)
(* the export of a reconstruction to a Bundler list file and bundle file.   *)
(*                                                                          *)
(* Memory is a heap of Reconstruction objects: the caller's object lives at *)
(* address "input", the private copy made by                                *)
(* CreateEstimatedSubreconstruction at address "copy".  The disk holds, for *)
(* each pair of output paths, the lines of the list file and of the bundle  *)
(* file.  A line is a record; its numeric payload (camera parameters, point *)
(* coordinates, feature coordinates) is a fixed attribute of the view or    *)
(* track it is printed from, so a line is identified by its kind and by the *)
(* ViewId / TrackId it was printed from.                                    *)
(***************************************************************************)
EXTENDS Integers, Sequences, FiniteSets

\* Bounds of the enumerated inputs.
MaxViews == 2
MaxTracks == 2

\* The two pairs of output paths an export is run against, in call order.
PathPairs == <<"A", "B">>
Pairs == {PathPairs[k] : k \in 1..Len(PathPairs)}
Addrs == {"input", "copy"}

VARIABLES
  heap,               \* address -> Reconstruction object (or NoObject)
  disk,               \* path pair -> [lists, bundle]: the lines of each file
  opened,             \* path pair -> [lists, bundle]: was an ofstream opened on it
  ret,                \* path pair -> "none" | "true" | "false": WriteBundlerFiles' result
  pc,                 \* position of the single thread of control
  pair,               \* the path pair of the running call ("none" when idle)
  sub,                \* subreconstruction / estimated_reconstruction pointer
  ids,                \* the id vector the current loop iterates (view_ids / track_ids)
  i,                  \* the current loop's position in ids
  view_id_to_index    \* WriteBundleFile's index table

vars == <<heap, disk, opened, ret, pc, pair, sub, ids, i, view_id_to_index>>

----------------------------------------------------------------------------
\* Reconstruction (theia/sfm/reconstruction.h), as the design describes it.

NoObject ==
  [live |-> FALSE, view_ids |-> <<>>, views |-> <<>>,
   track_ids |-> <<>>, tracks |-> <<>>]

SeqRemove(s, x) == SelectSeq(s, LAMBDA y : y # x)

Restrict(f, S) == [k \in S |-> f[k]]

ViewIds(r) == r.view_ids

TrackIds(r) == r.track_ids

HasView(r, v) == v \in DOMAIN r.views

HasTrack(r, t) == t \in DOMAIN r.tracks

NumViews(r) == Len(r.view_ids)

NumTracks(r) == Len(r.track_ids)

ViewIsEstimated(r, v) == r.views[v].estimated

TrackIsEstimated(r, t) == r.tracks[t].estimated

TrackViewIds(r, t) == r.tracks[t].view_ids

TrackNumViews(r, t) == Cardinality(r.tracks[t].view_ids)

\* Removing a view drops the view only: tracks keep listing it as observer.
RemoveView(r, v) ==
  [r EXCEPT !.view_ids = SeqRemove(@, v),
            !.views = Restrict(@, DOMAIN @ \ {v})]

RemoveTrack(r, t) ==
  [r EXCEPT !.track_ids = SeqRemove(@, t),
            !.tracks = Restrict(@, DOMAIN @ \ {t})]

\* The iteration order of a track's observer set: ascending ViewId.
RECURSIVE SetToSeq(_)
SetToSeq(S) ==
  IF S = {} THEN <<>>
  ELSE LET m == CHOOSE x \in S : \A y \in S : x <= y
       IN <<m>> \o SetToSeq(S \ {m})

----------------------------------------------------------------------------
\* Lines of the two files.

ListLine(v) == [kind |-> "name", view |-> v]

MagicLineOldVersion == [kind |-> "magic", text |-> "# Bundle file v0.2"]

MagicLine == [kind |-> "magic", text |-> "# Bundle file v0.3"]

HeaderLine(nv, nt) == [kind |-> "header", num_views |-> nv, num_tracks |-> nt]

CameraBlock(v) == [kind |-> "camera", view |-> v]

PositionLine(t) == [kind |-> "position", track |-> t]

ColorLine == [kind |-> "color", text |-> "255 255 255"]

ObservationEntry(idx, v, t) ==
  [index |-> idx, keypoint |-> 0, view |-> v, track |-> t]

ObservationLine(t, n, es) ==
  [kind |-> "observations", track |-> t, count |-> n, entries |-> es]

\* Content a path may hold before the export (a file left by an earlier tool).
StaleLine == [kind |-> "stale"]

Preexisting(p) == IF p = PathPairs[1] THEN <<>> ELSE <<StaleLine>>

\* std::ofstream ofs(path): opening truncates the file.
OpenAppend(old) == old

OpenTruncate(old) == <<>>

----------------------------------------------------------------------------
Inputs ==
  { [live |-> TRUE,
     view_ids |-> [k \in 1..n |-> k],
     views |-> [v \in 1..n |-> [estimated |-> ve[v]]],
     track_ids |-> [k \in 1..m |-> k],
     tracks |-> [t \in 1..m |-> [estimated |-> te[t], view_ids |-> ob[t]]]] :
    <<n, m, ve, te, ob>> \in
      UNION { UNION { {n1} \X {m1} \X [1..n1 -> BOOLEAN] \X [1..m1 -> BOOLEAN]
                        \X [1..m1 -> SUBSET (1..n1)] :
                      m1 \in 0..MaxTracks } : n1 \in 0..MaxViews } }

Init ==
  /\ \E r \in Inputs : heap = [a \in Addrs |-> IF a = "input" THEN r ELSE NoObject]
  /\ disk = [p \in Pairs |-> [lists |-> Preexisting(p), bundle |-> Preexisting(p)]]
  /\ opened = [p \in Pairs |-> [lists |-> FALSE, bundle |-> FALSE]]
  /\ ret = [p \in Pairs |-> "none"]
  /\ pc = "idle"
  /\ pair = "none"
  /\ sub = "null"
  /\ ids = <<>>
  /\ i = 0
  /\ view_id_to_index = <<>>

----------------------------------------------------------------------------
\* WriteBundlerFiles -> CreateEstimatedSubreconstruction

\* new Reconstruction(input_reconstruction): the address of the fresh copy.
AliasInput(a) == a

CopyConstruct(a) == "copy"

\* The track test of the second filter pass.
TrackIsRemovedNoCount(r, t) == ~TrackIsEstimated(r, t)

TrackIsRemovedRecount(r, t) ==
  \/ ~TrackIsEstimated(r, t)
  \/ Cardinality({v \in TrackViewIds(r, t) : HasView(r, v)}) < 2

TrackIsRemoved(r, t) ==
  \/ ~TrackIsEstimated(r, t)
  \/ TrackNumViews(r, t) < 2

\* The export is started on the next unused pair of paths.
NextPair(p) ==
  \E k \in 1..Len(PathPairs) :
    /\ PathPairs[k] = p
    /\ ret[p] = "none"
    /\ \A j \in 1..(k - 1) : ret[PathPairs[j]] # "none"

Call(p) ==
  /\ pc = "idle"
  /\ NextPair(p)
  /\ pair' = p
  /\ LET a == CopyConstruct("input") IN
       /\ sub' = a
       /\ heap' = [heap EXCEPT ![a] = heap["input"]]
       /\ ids' = ViewIds(heap["input"])
  /\ i' = 0
  /\ pc' = "filter_views"
  /\ UNCHANGED <<disk, opened, ret, view_id_to_index>>

FilterView ==
  /\ pc = "filter_views"
  /\ i < Len(ids)
  /\ LET view_id == ids[i + 1]
         r == heap[sub] IN
       heap' = IF HasView(r, view_id) /\ ~ViewIsEstimated(r, view_id)
               THEN [heap EXCEPT ![sub] = RemoveView(r, view_id)]
               ELSE heap
  /\ i' = i + 1
  /\ UNCHANGED <<disk, opened, ret, pc, pair, sub, ids, view_id_to_index>>

FilterViewsDone ==
  /\ pc = "filter_views"
  /\ i = Len(ids)
  /\ ids' = TrackIds(heap[sub])
  /\ i' = 0
  /\ pc' = "filter_tracks"
  /\ UNCHANGED <<heap, disk, opened, ret, pair, sub, view_id_to_index>>

FilterTrack ==
  /\ pc = "filter_tracks"
  /\ i < Len(ids)
  /\ LET track_id == ids[i + 1]
         r == heap[sub] IN
       heap' = IF HasTrack(r, track_id) /\ TrackIsRemoved(r, track_id)
               THEN [heap EXCEPT ![sub] = RemoveTrack(r, track_id)]
               ELSE heap
  /\ i' = i + 1
  /\ UNCHANGED <<disk, opened, ret, pc, pair, sub, ids, view_id_to_index>>

FilterTracksDone ==
  /\ pc = "filter_tracks"
  /\ i = Len(ids)
  /\ ids' = <<>>
  /\ i' = 0
  /\ pc' = "open_lists"
  /\ UNCHANGED <<heap, disk, opened, ret, pair, sub, view_id_to_index>>

----------------------------------------------------------------------------
\* Leaving WriteBundlerFiles: the unique_ptr deletes the object it owns.

Return(value) ==
  /\ ret' = [ret EXCEPT ![pair] = value]
  /\ heap' = [heap EXCEPT ![sub] = NoObject]
  /\ sub' = "null"
  /\ pair' = "none"
  /\ ids' = <<>>
  /\ i' = 0
  /\ view_id_to_index' = <<>>
  /\ pc' = "idle"

----------------------------------------------------------------------------
\* WriteListsFile

\* The view printed by iteration k (0-based) of the list loop.
ListsViewReversed(s, k) == s[Len(s) - k]

ListsViewAt(s, k) == s[k + 1]

OpenListsFileNoShortCircuit ==
  /\ pc = "open_lists"
  /\ \E ok \in BOOLEAN :
       IF ok
       THEN /\ disk' = [disk EXCEPT ![pair].lists = OpenTruncate(@)]
            /\ opened' = [opened EXCEPT ![pair].lists = TRUE]
            /\ ids' = ViewIds(heap[sub])
       ELSE /\ ids' = <<>>
            /\ UNCHANGED <<disk, opened>>
  /\ i' = 0
  /\ pc' = "write_lists"
  /\ UNCHANGED <<heap, ret, pair, sub, view_id_to_index>>

OpenListsFile ==
  /\ pc = "open_lists"
  /\ \E ok \in BOOLEAN :
       IF ok
       THEN /\ disk' = [disk EXCEPT ![pair].lists = OpenTruncate(@)]
            /\ opened' = [opened EXCEPT ![pair].lists = TRUE]
            /\ ids' = ViewIds(heap[sub])
            /\ i' = 0
            /\ pc' = "write_lists"
            /\ UNCHANGED <<heap, ret, pair, sub, view_id_to_index>>
       ELSE /\ Return("false")
            /\ UNCHANGED <<disk, opened>>

WriteListLine ==
  /\ pc = "write_lists"
  /\ i < Len(ids)
  /\ disk' = [disk EXCEPT ![pair].lists = Append(@, ListLine(ListsViewAt(ids, i)))]
  /\ i' = i + 1
  /\ UNCHANGED <<heap, opened, ret, pc, pair, sub, ids, view_id_to_index>>

----------------------------------------------------------------------------
\* WriteBundleFile

\* The index recorded for the view at position k (0-based) of the camera loop.
AssignedIndexOneBased(k) == k + 1

AssignedIndex(k) == k

\* The count printed at the start of a track's observation line.
ObservationCountOfTracks(r, t) == NumTracks(r)

ObservationCount(r, t) == TrackNumViews(r, t)

\* FindOrDie(view_id_to_index, view_id) ends the process on a missing key.
Dies(table, v) == v \notin DOMAIN table

\* The observation loop over vs: the entries written, up to the first view
\* FindOrDie dies on.
RECURSIVE ObservationEntries(_, _, _)
ObservationEntries(vs, table, t) ==
  IF vs = <<>> \/ Dies(table, Head(vs)) THEN <<>>
  ELSE <<ObservationEntry(table[Head(vs)], Head(vs), t)>>
         \o ObservationEntries(Tail(vs), table, t)

ObservationLoopDies(vs, table) ==
  \E k \in 1..Len(vs) : Dies(table, vs[k])

\* WriteListsFile returns true; WriteBundleFile opens its stream and, when
\* that succeeds, prints the two header lines.
OpenBundleFile ==
  /\ pc = "write_lists"
  /\ i = Len(ids)
  /\ \E ok \in BOOLEAN :
       IF ok
       THEN /\ disk' = [disk EXCEPT ![pair].bundle =
                          OpenTruncate(@) \o
                          <<MagicLine,
                            HeaderLine(NumViews(heap[sub]), NumTracks(heap[sub]))>>]
            /\ opened' = [opened EXCEPT ![pair].bundle = TRUE]
            /\ view_id_to_index' = <<>>
            /\ ids' = ViewIds(heap[sub])
            /\ i' = 0
            /\ pc' = "write_cameras"
            /\ UNCHANGED <<heap, ret, pair, sub>>
       ELSE /\ Return("false")
            /\ UNCHANGED <<disk, opened>>

WriteCamera ==
  /\ pc = "write_cameras"
  /\ i < Len(ids)
  /\ LET view_id == ids[i + 1] IN
       /\ view_id_to_index' =
            [v \in DOMAIN view_id_to_index \cup {view_id} |->
               IF v = view_id THEN AssignedIndex(i) ELSE view_id_to_index[v]]
       /\ disk' = [disk EXCEPT ![pair].bundle = Append(@, CameraBlock(view_id))]
  /\ i' = i + 1
  /\ UNCHANGED <<heap, opened, ret, pc, pair, sub, ids>>

WriteCamerasDone ==
  /\ pc = "write_cameras"
  /\ i = Len(ids)
  /\ ids' = TrackIds(heap[sub])
  /\ i' = 0
  /\ pc' = "write_points"
  /\ UNCHANGED <<heap, disk, opened, ret, pair, sub, view_id_to_index>>

WritePoint ==
  /\ pc = "write_points"
  /\ i < Len(ids)
  /\ LET track_id == ids[i + 1]
         r == heap[sub]
         views_in_track == SetToSeq(TrackViewIds(r, track_id))
         entries == ObservationEntries(views_in_track, view_id_to_index, track_id)
         line == ObservationLine(track_id, ObservationCount(r, track_id), entries)
     IN
       /\ disk' = [disk EXCEPT ![pair].bundle =
                     @ \o <<PositionLine(track_id), ColorLine, line>>]
       /\ IF ObservationLoopDies(views_in_track, view_id_to_index)
          THEN /\ pc' = "aborted"
               /\ i' = i
          ELSE /\ pc' = pc
               /\ i' = i + 1
  /\ UNCHANGED <<heap, opened, ret, pair, sub, ids, view_id_to_index>>

ReturnSuccess ==
  /\ pc = "write_points"
  /\ i = Len(ids)
  /\ Return("true")
  /\ UNCHANGED <<disk, opened>>

----------------------------------------------------------------------------
Next ==
  \/ \E p \in Pairs : Call(p)
  \/ FilterView
  \/ FilterViewsDone
  \/ FilterTrack
  \/ FilterTracksDone
  \/ OpenListsFile
  \/ WriteListLine
  \/ OpenBundleFile
  \/ WriteCamera
  \/ WriteCamerasDone
  \/ WritePoint
  \/ ReturnSuccess

Spec == Init /\ [][Next]_vars

----------------------------------------------------------------------------
\* Vocabulary of the properties.

Range(s) == {s[k] : k \in 1..Len(s)}

Input == heap["input"]

LinesOfKind(f, kd) == SelectSeq(f, LAMBDA l : l.kind = kd)

InFilter == pc \in {"filter_views", "filter_tracks"}

\* A retained track lists an observer that is no longer a view of r.
AbsentObservers(r, t) == {v \in TrackViewIds(r, t) : ~HasView(r, v)}

HasAbsentObserver(r) == \E t \in DOMAIN r.tracks : AbsentObservers(r, t) # {}

\* The views / tracks of the caller's reconstruction the design calls eligible.
EligibleViews == SelectSeq(Input.view_ids, LAMBDA v : Input.views[v].estimated)

EligibleTracks ==
  SelectSeq(Input.track_ids,
            LAMBDA t : /\ Input.tracks[t].estimated
                       /\ Cardinality(Input.tracks[t].view_ids) >= 2)

----------------------------------------------------------------------------
\* C1: when CreateEstimatedSubreconstruction has returned, the copy has no
\* more views and no more tracks than the input, every retained view is
\* estimated, and every retained track is estimated and has at least 2
\* observing views.
C1_FilterKeepsOnlyEligible ==
  pc = "open_lists" =>
    LET r == heap[sub] IN
      /\ NumViews(r) <= NumViews(Input)
      /\ NumTracks(r) <= NumTracks(Input)
      /\ Range(ViewIds(r)) = DOMAIN r.views
      /\ Range(TrackIds(r)) = DOMAIN r.tracks
      /\ \A v \in DOMAIN r.views : ViewIsEstimated(r, v)
      /\ \A t \in DOMAIN r.tracks :
           TrackIsEstimated(r, t) /\ TrackNumViews(r, t) >= 2

\* The filter has returned: it kept a track and dropped an estimated track
\* observed by a single view, and dropped a view.
C1_Witness ==
  /\ pc = "open_lists"
  /\ NumTracks(heap[sub]) >= 1
  /\ NumViews(heap[sub]) < NumViews(Input)
  /\ \E t \in DOMAIN Input.tracks :
       /\ Input.tracks[t].estimated
       /\ Cardinality(Input.tracks[t].view_ids) = 1
       /\ ~HasTrack(heap[sub], t)

\* C2: no step of WriteBundlerFiles changes the caller's reconstruction,
\* whatever the outcome of the call.
C2_InputNeverMutated == [][heap'["input"] = heap["input"]]_vars

\* A call has returned although the filter had views or tracks to remove.
C2_Witness ==
  /\ ret[PathPairs[1]] # "none"
  /\ Input.live
  /\ \/ \E v \in DOMAIN Input.views : ~Input.views[v].estimated
     \/ \E t \in DOMAIN Input.tracks : ~Input.tracks[t].estimated

\* C3: once the camera section is written the index table is a bijection
\* between the retained ViewIds and 0..NumViews-1, and every observation
\* entry in a bundle file carries the position of its view's camera block.
C3_IndexBijection ==
  /\ pc \in {"write_points", "aborted"} =>
       LET r == heap[sub] IN
         /\ DOMAIN view_id_to_index = Range(ViewIds(r))
         /\ {view_id_to_index[v] : v \in DOMAIN view_id_to_index}
              = 0..(NumViews(r) - 1)
         /\ \A v, w \in DOMAIN view_id_to_index :
              view_id_to_index[v] = view_id_to_index[w] => v = w
  /\ \A p \in Pairs :
       LET cams == LinesOfKind(disk[p].bundle, "camera")
           obs == LinesOfKind(disk[p].bundle, "observations") IN
         \A k \in 1..Len(obs) : \A n \in 1..Len(obs[k].entries) :
           LET e == obs[k].entries[n] IN
             /\ e.index + 1 \in 1..Len(cams)
             /\ cams[e.index + 1].view = e.view

\* A point block with two observation entries has been written.
C3_Witness ==
  /\ pc = "write_points"
  /\ \E k \in 1..Len(disk[pair].bundle) :
       /\ disk[pair].bundle[k].kind = "observations"
       /\ Len(disk[pair].bundle[k].entries) >= 2

\* C4: when a retained track lists an observer absent from the index table,
\* the observation is skipped and the export goes on: the process does not
\* stop, and every observation line written holds one entry for each
\* observer that has an index.
C4_SilentSkip ==
  (pair # "none" /\ opened[pair].bundle /\ HasAbsentObserver(heap[sub])) =>
    /\ pc # "aborted"
    /\ LET obs == LinesOfKind(disk[pair].bundle, "observations") IN
         \A k \in 1..Len(obs) :
           {obs[k].entries[n].view : n \in 1..Len(obs[k].entries)}
             = TrackViewIds(heap[sub], obs[k].track)
                 \ AbsentObservers(heap[sub], obs[k].track)

\* What WriteBundleFile does in that case: FindOrDie ends the process at the
\* first observer of a track that has no index. The line holds no entry for
\* it or for any later observer, nothing is written after it, the call never
\* returns, and the point loop never gets past such a track.
DiesOnAbsentView ==
  /\ pc = "aborted" =>
       LET r == heap[sub]
           t == ids[i + 1]
           f == disk[pair].bundle
           last == f[Len(f)] IN
         /\ ret[pair] = "none"
         /\ AbsentObservers(r, t) # {}
         /\ last.kind = "observations"
         /\ last.track = t
         /\ \A n \in 1..Len(last.entries) :
              /\ last.entries[n].view \in DOMAIN view_id_to_index
              /\ \A a \in AbsentObservers(r, t) : last.entries[n].view < a
  /\ pc = "write_points" =>
       \A k \in 1..i : AbsentObservers(heap[sub], ids[k]) = {}

C6_Sequencing ==
  /\ InFilter => ~opened[pair].lists /\ ~opened[pair].bundle
  /\ \A p \in Pairs :
       /\ opened[p].bundle => opened[p].lists
       /\ opened[p].bundle =>
            disk[p].lists = [k \in 1..Len(EligibleViews) |-> ListLine(EligibleViews[k])]
       /\ ret[p] = "true" => opened[p].lists /\ opened[p].bundle
       /\ ret[p] = "false" =>
            /\ ~opened[p].bundle
            /\ disk[p].bundle = Preexisting(p)
            /\ opened[p].lists =>
                 disk[p].lists =
                   [k \in 1..Len(EligibleViews) |-> ListLine(EligibleViews[k])]
            /\ ~opened[p].lists => disk[p].lists = Preexisting(p)
  /\ (pair # "none" /\ opened[pair].lists) =>
       LET r == heap[sub] IN
         /\ \A v \in DOMAIN r.views : ViewIsEstimated(r, v)
         /\ \A t \in DOMAIN r.tracks : TrackIsEstimated(r, t)

\* The bundle file could not be opened after a list file with lines was
\* written.
C6_Witness ==
  \E p \in Pairs :
    /\ ret[p] = "false"
    /\ opened[p].lists
    /\ Len(disk[p].lists) >= 1

\* C7: when nothing of the input is eligible, an export whose two files
\* could be opened succeeds, leaves a list file of zero lines and a bundle
\* file of exactly the magic line and the line "0 0".
C7_EmptyExport ==
  (EligibleViews = <<>> /\ EligibleTracks = <<>>) =>
    /\ pc # "aborted"
    /\ \A p \in Pairs :
         /\ opened[p].lists => disk[p].lists = <<>>
         /\ (opened[p].bundle /\ pair # p) => ret[p] = "true"
         /\ ret[p] = "true" =>
              /\ disk[p].lists = <<>>
              /\ disk[p].bundle =
                   << [kind |-> "magic", text |-> "# Bundle file v0.3"],
                      [kind |-> "header", num_views |-> 0, num_tracks |-> 0] >>

\* An export of an input with views and tracks, none eligible, succeeded on
\* paths that held older files.
C7_Witness ==
  /\ EligibleViews = <<>>
  /\ EligibleTracks = <<>>
  /\ NumViews(Input) >= 1
  /\ NumTracks(Input) >= 1
  /\ ret[PathPairs[2]] = "true"
  /\ Preexisting(PathPairs[2]) # <<>>

\* C8: two exports of the same reconstruction to two pairs of writable
\* paths leave identical list files and identical bundle files and return
\* the same value.
C8_Deterministic ==
  \A p, q \in Pairs :
    ( /\ ret[p] # "none" /\ ret[q] # "none"
      /\ opened[p].lists /\ opened[p].bundle
      /\ opened[q].lists /\ opened[q].bundle ) =>
        /\ disk[p].lists = disk[q].lists
        /\ disk[p].bundle = disk[q].bundle
        /\ ret[p] = ret[q]

\* Both exports returned after writing cameras and points, the second one
\* over older files.
C8_Witness ==
  /\ \A p \in Pairs : ret[p] = "true" /\ Len(disk[p].bundle) > 4
  /\ Preexisting(PathPairs[1]) # Preexisting(PathPairs[2])

\* C9: in the bundle file of an export that completed, each observation
\* line's count equals the number of entries on the line and the size of the
\* track's observer set, and the entries are those of the observer set.
C9_CountMatchesEntries ==
  \A p \in Pairs :
    ret[p] = "true" =>
      LET obs == LinesOfKind(disk[p].bundle, "observations") IN
        \A k \in 1..Len(obs) :
          /\ obs[k].count = Len(obs[k].entries)
          /\ obs[k].count = Cardinality(Input.tracks[obs[k].track].view_ids)
          /\ {obs[k].entries[n].view : n \in 1..Len(obs[k].entries)}
               = Input.tracks[obs[k].track].view_ids

\* A completed export wrote an observation line for a track with observers.
C9_Witness ==
  \E p \in Pairs :
    /\ ret[p] = "true"
    /\ \E k \in 1..Len(disk[p].bundle) :
         /\ disk[p].bundle[k].kind = "observations"
         /\ disk[p].bundle[k].count >= 2

\* C10: after a successful export the list file has one line per camera
\* block, in the same order, the header's counts are the numbers of camera
\* blocks and of point blocks, and while points are written the index of the
\* view of the k-th list line is k-1.
C10_ListMatchesBundle ==
  /\ \A p \in Pairs :
       ret[p] = "true" =>
         LET cams == LinesOfKind(disk[p].bundle, "camera")
             pts == LinesOfKind(disk[p].bundle, "position")
             hdr == disk[p].bundle[2] IN
           /\ hdr.kind = "header"
           /\ Len(disk[p].lists) = hdr.num_views
           /\ Len(cams) = hdr.num_views
           /\ Len(pts) = hdr.num_tracks
           /\ \A k \in 1..Len(cams) : disk[p].lists[k].view = cams[k].view
  /\ pc = "write_points" =>
       /\ Len(disk[pair].lists) = Cardinality(DOMAIN view_id_to_index)
       /\ \A k \in 1..Len(disk[pair].lists) :
            /\ disk[pair].lists[k].view \in DOMAIN view_id_to_index
            /\ view_id_to_index[disk[pair].lists[k].view] = k - 1

\* A successful export listed two views and wrote a point block.
C10_Witness ==
  \E p \in Pairs :
    /\ ret[p] = "true"
    /\ Len(disk[p].lists) >= 2
    /\ Len(LinesOfKind(disk[p].bundle, "position")) >= 1

====
